---- MODULE Spec2Model ----
(***************************************************************************)
(* McpBundler (src/src/index.ts): the connection lifecycle manager of      *)
(* @kunobi/mcp-bundler, as a state machine.                                *)
(*                                                                         *)
(* The manager runs on one JavaScript event loop.  Every action below is   *)
(* one uninterrupted run of code: from a call, a timer firing, a transport *)
(* signal or the resumption of an `await`, up to the next `await` (or the  *)
(* return).  The remote side (Client, StreamableHTTPClientTransport) is    *)
(* opaque: whether an open, a listing, a call or a close succeeds, and     *)
(* when a transport reports that it closed, is chosen nondeterministically.*)
(*                                                                         *)
(* Connection objects are numbered 1, 2, ... in the order connect()        *)
(* creates them; 0 stands for null.  Each connect() call that passes its   *)
(* guards creates exactly one Client, so the attempt and the Client it     *)
(* created share their number.  Tool names are the numbers 1..NumTools,    *)
(* ordered as Array.prototype.sort orders the names.                       *)
(***************************************************************************)
EXTENDS Naturals, Sequences, FiniteSets

VARIABLES
    state,            \* this.state
    closed,           \* this.closed
    client,           \* this.client: 0 (null) or a connection object
    transport,        \* this.transport: 0 (null) or the transport of that object
    retryCount,       \* this.retryCount
    reconnectTimer,   \* this.reconnectTimer: 0 (null) or a timer handle
    lastToolNames,    \* this.lastToolNames
    reconnectOpts,    \* this.reconnectOpts (enabled, maxRetries), fixed at construction
    remoteNames,      \* the tool names the remote end may list in this run
    maxConns,         \* the connection objects this run may create
    failures,         \* the values the remote's operations may reject with in this run
    reachable,        \* the remote accepts connections and keeps them from now on
    registeredToolNames, \* this.registeredToolNames
    host,             \* the local McpServer: the names with a proxy installed
    others,           \* the local McpServer: the names of its other registered tools
    reg,              \* the registerTools() invocation
    px,               \* the invocation of an installed proxy, and its result
    unreg,            \* the latest unregisterTools() call: the server it was given,
                      \*   what it found and the remove() calls it made
    conn,             \* connect() invocations that created a Client, by Client
    tm,               \* timers armed by scheduleReconnect and their callbacks
    cls,              \* close() invocations
    sig,              \* transports whose onclose has fired
    last,             \* what the latest step was and what it emitted
    opened,           \* history: connection objects whose open succeeded
    since,            \* history: attempts started since construction or the last
                      \*   successful open, by the reconnect timer and by the caller
    prevNames,        \* history: the snapshot the last disconnect cleared, when the
                      \*   connection it ended had finished its initial listing
    shut,             \* history: connection objects the manager has called close() on
    note              \* history: the latest of the connected and disconnected
                      \*   notifications emitted

mgrVars == <<state, closed, client, transport, retryCount, reconnectTimer,
             lastToolNames>>

envVars == <<reconnectOpts, remoteNames, maxConns, failures, reachable>>

proxyVars == <<registeredToolNames, host, others, reg, px, unreg>>

histVars == <<opened, since, prevNames, shut, note>>

vars == <<mgrVars, envVars, conn, tm, cls, sig, last, histVars, proxyVars>>

----------------------------------------------------------------------------
(* Bounds of the model. *)

MaxClients == 2      \* connection objects created in one run
DeepMaxClients == 3  \* connection objects created in a run of SpecDeep
MaxTimers == 2       \* reconnect timers armed and not yet finished at one time
MaxCloses == 1       \* close() calls suspended at one time
MaxRetriesOpt == 1   \* the finite values of reconnect.maxRetries: 0..MaxRetriesOpt
NumTools == 2        \* tool names the remote may list
ProxyMaxClients == 2 \* connection objects created in a run with proxies
HostMaxClients == 1  \* connection objects created in a run of SpecHost
LiveMaxClients == 2  \* connection objects created in a run of SpecLive

Clients == 1..(IF MaxClients > DeepMaxClients THEN MaxClients ELSE DeepMaxClients)
Timers == 1..MaxTimers
Closes == 1..MaxCloses
ToolNames == 1..NumTools

ConnectionState == {"idle", "connecting", "connected", "disconnected"}

\* Number.POSITIVE_INFINITY, the default of maxRetries.  retryCount grows by one per
\* armed timer, and a timer is armed only by a failed attempt or by a disconnect
\* (one per transport at most), so this value is above every count reached.
Infinity == 2 * (MaxClients + DeepMaxClients) + 1

\* The listings a remote may return: sequences of distinct tool names.
RECURSIVE SeqsUpTo(_)
SeqsUpTo(n) ==
    IF n = 0 THEN {<<>>}
    ELSE LET shorter == SeqsUpTo(n - 1)
         IN  shorter \cup
             {Append(s, x) : <<s, x>> \in
                 {p \in shorter \X ToolNames :
                     /\ Len(p[1]) = n - 1
                     /\ \A i \in 1..Len(p[1]) : p[1][i] # p[2]}}

Range(s) == {s[i] : i \in 1..Len(s)}

AllListings == SeqsUpTo(NumTools)

\* The listings of this run's remote.
Listings == {l \in AllListings : Range(l) \subseteq remoteNames}

NoEvent == [op |-> "init", ev |-> "none", tools |-> <<>>, prev |-> <<>>, snap |-> <<>>]

\* The steps told apart in `last`: a caller's connect() call (started or not), a
\* close() call (suspended, returned or raised), the end of a timer callback's
\* tool comparison, the invocation of a proxy, a caller's connect(),
\* registerTools() or proxy invocation ending with an exception, an
\* unregisterTools() call, and the end of a connect() whose initial listing
\* failed; every other step is "step".
Ops == {"connect", "connect_noop", "close_await", "close_ret", "close_raised",
        "timer_listed", "proxy", "connect_raised", "list_raised", "proxy_raised",
        "unregister", "listing_failed"}

Step(op) ==
    [op |-> IF op \in Ops THEN op ELSE "step", ev |-> "none", tools |-> <<>>,
     prev |-> <<>>, snap |-> <<>>]

Emit(op, ev, tools) ==
    [op |-> IF op \in Ops THEN op ELSE "step", ev |-> ev, tools |-> tools,
     prev |-> <<>>, snap |-> <<>>]

\* The end of a timer callback's comparison: the listing it compared, what it
\* emitted, the names the connection before this reconnect had observed, and the
\* snapshot the listing was compared with.
Compared(ev, tools, prev, snap) ==
    [op |-> "timer_listed", ev |-> ev, tools |-> tools, prev |-> prev, snap |-> snap]

----------------------------------------------------------------------------
(* formatError, lines 33-37. *)

\* The values a failed remote operation may reject with: an Error carrying a
\* message, a string, a value JSON.stringify turns into a text, and a value it
\* cannot serialise (a cyclic object, a BigInt), for which it throws a TypeError.
FailureValues ==
    {[type |-> "Error", text |-> "boom"],
     [type |-> "string", text |-> "boom"],
     [type |-> "object", text |-> "{code:42}"],
     [type |-> "cyclic", text |-> ""]}

\* The outcome of an expression that throws instead of yielding a text.
TypeError == "TypeError: Converting circular structure to JSON"

\* JSON.stringify(value)
JSONstringify(e) == IF e.type = "cyclic" THEN TypeError ELSE e.text

\* formatError(error): the message of an Error, a string unchanged, and otherwise
\* JSON.stringify(error), whose exception is not caught.
formatError(e) ==
    IF e.type = "Error" THEN e.text
    ELSE IF e.type = "string" THEN e.text
    ELSE JSONstringify(e)

\* A catch block that formats the failure it caught (lines 144, 158, 198, 248)
\* throws in its turn when formatError does.
CatchThrows(e) == formatError(e) = TypeError

\* The failure values every catch block of the manager can format.
Formattable == {e \in FailureValues : ~CatchThrows(e)}

----------------------------------------------------------------------------
(* Construction. *)

\* constructor: the reconnect options, with the defaults of lines 91-93.
ReconnectOptions ==
    {[enabled |-> TRUE, maxRetries |-> n] : n \in (0..MaxRetriesOpt) \cup {Infinity}}
        \cup {[enabled |-> FALSE, maxRetries |-> Infinity]}

\* No connection with a finished listing has been disconnected.
NoNames == <<0>>

NoConn == [pc |-> "none", lcl |-> 0]

NoTimer == [pc |-> "unused", att |-> 0, lcl |-> 0, prev |-> <<>>]

NoReg == [pc |-> "idle", lcl |-> 0]

NoCall == [pc |-> "idle", tool |-> 0, h |-> 0, res |-> "none", msg |-> ""]

NoRemoval == [n \in ToolNames |-> 0]

NoUnreg == [srv |-> "none", names |-> {}, entries |-> {}, calls |-> NoRemoval]

\* The manager after construction (lines 68-95); the run's environment is set by
\* the specification.
Constructed ==
    /\ state = "idle"
    /\ closed = FALSE
    /\ client = 0
    /\ transport = 0
    /\ retryCount = 0
    /\ reconnectTimer = 0
    /\ lastToolNames = <<>>
    /\ registeredToolNames = {}
    /\ host = {}
    /\ reg = NoReg
    /\ px = NoCall
    /\ unreg = NoUnreg
    /\ conn = [c \in Clients |-> NoConn]
    /\ tm = [t \in Timers |-> NoTimer]
    /\ cls = [k \in Closes |-> "idle"]
    /\ sig = {}
    /\ last = NoEvent
    /\ opened = {}
    /\ since = [auto |-> 0, manual |-> 0]
    /\ prevNames = NoNames
    /\ shut = {}
    /\ note = "none"
    /\ reachable = FALSE

\* Every reconnect policy and every failure value, a remote with one tool name.
Init ==
    /\ Constructed
    /\ reconnectOpts \in ReconnectOptions
    /\ remoteNames = {1}
    /\ maxConns = MaxClients
    /\ failures = FailureValues
    /\ others = {}

\* Reconnection with a finite retry budget and one more connection object, for a
\* manager that is never closed.
InitDeep ==
    /\ Constructed
    /\ reconnectOpts \in {[enabled |-> TRUE, maxRetries |-> n] : n \in 1..MaxRetriesOpt}
    /\ remoteNames = {1}
    /\ maxConns = DeepMaxClients
    /\ failures = Formattable
    /\ others = {}

\* The default reconnect policy (lines 91-93) and proxies installed on a host.
InitProxy ==
    /\ Constructed
    /\ reconnectOpts = [enabled |-> TRUE, maxRetries |-> Infinity]
    /\ remoteNames = {1}
    /\ maxConns = ProxyMaxClients
    /\ failures = Formattable
    /\ others = {}

\* The default reconnect policy and a remote whose listings change.
InitTools ==
    /\ Constructed
    /\ reconnectOpts = [enabled |-> TRUE, maxRetries |-> Infinity]
    /\ remoteNames = ToolNames
    /\ maxConns = ProxyMaxClients
    /\ failures = Formattable
    /\ others = {}

\* Every failure value, without reconnection, and proxies installed on a host.
InitErrors ==
    /\ Constructed
    /\ reconnectOpts = [enabled |-> FALSE, maxRetries |-> Infinity]
    /\ remoteNames = {1}
    /\ maxConns = ProxyMaxClients
    /\ failures = FailureValues
    /\ others = {}

\* The default reconnect policy and every failure value, for a manager that is
\* never closed.
InitLive ==
    /\ Constructed
    /\ reconnectOpts = [enabled |-> TRUE, maxRetries |-> Infinity]
    /\ remoteNames = {1}
    /\ maxConns = LiveMaxClients
    /\ failures = FailureValues
    /\ others = {}

\* Reconnect disabled, and a server that holds tools other parties registered
\* under names the remote does not list.
InitHost ==
    /\ Constructed
    /\ reconnectOpts = [enabled |-> FALSE, maxRetries |-> Infinity]
    /\ remoteNames = {1}
    /\ maxConns = HostMaxClients
    /\ failures = Formattable
    /\ others \in SUBSET (ToolNames \ {1})

----------------------------------------------------------------------------
(* Pure helpers. *)

\* getState()
getState == state

\* getTools(): a copy of the snapshot
getTools == lastToolNames

\* Connection objects created so far, and the next one `new Client` makes.
Created == {c \in Clients : conn[c].pc # "none"}

NextClient == Cardinality(Created) + 1

\* connect() invocations suspended at an await.
InFlight == {c \in Clients : conn[c].pc \in {"open", "list"}}

PendingTimers == {t \in Timers : tm[t].pc = "pending"}

FreeTimers == {t \in Timers : tm[t].pc = "unused"}

\* Array.prototype.sort on a list of names: insertion of each name in order.
RECURSIVE Insert(_, _)
Insert(x, s) ==
    IF s = <<>> THEN <<x>>
    ELSE IF x <= Head(s) THEN <<x>> \o s
    ELSE <<Head(s)>> \o Insert(x, Tail(s))

RECURSIVE Sort(_)
Sort(s) == IF s = <<>> THEN <<>> ELSE Insert(Head(s), Sort(Tail(s)))

\* JSON.stringify(newNames) !== JSON.stringify(oldNames): the texts of two arrays
\* of names differ exactly when the arrays differ in length or at some index.
StringifyDiffers(a, b) ==
    \/ Len(a) # Len(b)
    \/ \E i \in 1..Len(a) : a[i] # b[i]

ToolsChanged(tools, old) == StringifyDiffers(Sort(tools), Sort(old))

----------------------------------------------------------------------------
(* connect(), lines 105-149. *)

\* connect() without the check of this.closed at line 106.
ConnectGuard_IgnoresClosed(st) == st \notin {"connecting", "connected"}

\* The guards of connect() (lines 106-107), read with this.state = st.
ConnectGuard(st) == ~closed /\ st \notin {"connecting", "connected"}

\* The guard of listTools() (line 152): a remote listing is requested only with a
\* connection object and in state connected; otherwise [] is returned at once.
ListGuard(cl, st) == cl # 0 /\ st = "connected"

\* The listings a listTools() call may resolve to when it captured the connection
\* object lcl: [] at once when the guard failed (lcl = 0), a listing of the remote
\* when the open of lcl succeeded, and none when it did not, as the remote
\* listing can then only fail.
ListResults(lcl) ==
    IF lcl = 0 THEN {<<>>}
    ELSE IF lcl \in opened THEN Listings
    ELSE {}

\* Lines 109-132: state := connecting, a new Client and transport, the onclose
\* handler installed, and the invocation suspended at `await client.connect`.
ConnectStart ==
    /\ NextClient <= maxConns
    /\ state' = "connecting"
    /\ client' = NextClient
    /\ transport' = NextClient
    /\ conn' = [conn EXCEPT ![NextClient] = [pc |-> "open", lcl |-> 0]]

\* scheduleReconnect without the check of reconnectOpts.enabled at line 267.
ShouldSchedule_IgnoresEnabled ==
    /\ ~closed
    /\ retryCount < reconnectOpts.maxRetries

\* The guards of scheduleReconnect (lines 266-274).
ShouldSchedule ==
    /\ ~closed
    /\ reconnectOpts.enabled
    /\ retryCount < reconnectOpts.maxRetries

LeastFree == CHOOSE t \in FreeTimers : \A u \in FreeTimers : t <= u

\* scheduleReconnect (lines 265-311) up to setTimeout: the retry accounting and the
\* arming of a one-shot timer whose handle overwrites this.reconnectTimer.
scheduleReconnect ==
    IF ShouldSchedule
    THEN /\ FreeTimers # {}
         /\ retryCount' = retryCount + 1
         /\ tm' = [tm EXCEPT ![LeastFree] = [NoTimer EXCEPT !.pc = "pending"]]
         /\ reconnectTimer' = LeastFree
    ELSE UNCHANGED <<retryCount, tm, reconnectTimer>>

\* A caller's connect() call, up to its first await (or its early return).
Connect ==
    /\ IF ConnectGuard(state)
       THEN /\ ConnectStart
            /\ last' = Step("connect")
            /\ since' = [since EXCEPT !.manual = @ + 1]
       ELSE /\ UNCHANGED <<state, client, transport, conn, since>>
            /\ last' = Step("connect_noop")
    /\ UNCHANGED <<closed, retryCount, reconnectTimer, lastToolNames,
                   envVars, tm, cls, sig, opened, prevNames, shut, note, proxyVars>>

\* `await this.client.connect(this.transport)` resolved: lines 134-138, up to the
\* await of listTools(), whose guard is evaluated in the same run.
ConnectOpened(c) ==
    /\ conn[c].pc = "open"
    /\ state' = "connected"
    /\ retryCount' = 0
    /\ conn' = [conn EXCEPT ![c] =
                   [pc |-> "list",
                    lcl |-> IF ListGuard(client, "connected") THEN client ELSE 0]]
    /\ last' = Step("opened")
    /\ opened' = opened \cup {c}
    /\ since' = [auto |-> 0, manual |-> 0]
    /\ UNCHANGED <<closed, client, transport, reconnectTimer, lastToolNames,
                   envVars, tm, cls, sig, prevNames, shut, note, proxyVars>>

\* `await this.listTools()` resolved: lines 139-141.
ConnectListed(c, tools) ==
    /\ conn[c].pc = "list"
    /\ tools \in ListResults(conn[c].lcl)
    /\ lastToolNames' = tools
    /\ conn' = [conn EXCEPT ![c] = [pc |-> "done", lcl |-> 0]]
    /\ last' = Emit("listed", "connected", tools)
    /\ note' = "connected"
    /\ UNCHANGED <<state, closed, client, transport, retryCount, reconnectTimer,
                   envVars, tm, cls, sig, opened, since, prevNames, shut, proxyVars>>

\* An operation on connection object c may fail, and its transport may close:
\* always while the remote is not known to stay reachable, and afterwards
\* only when the manager has closed c itself.
MayFail(c) == ~reachable \/ c \in shut

\* The connect() invocation that created c was made by a timer callback, which
\* awaits it (line 297); otherwise it was made by the caller.
ByTimer(c) == \E t \in Timers : tm[t].pc = "connect" /\ tm[t].att = c

\* `await this.client.connect(this.transport)` rejected with e: the catch of lines
\* 142-148.  When formatting e throws (line 144), the exception leaves connect()
\* before lines 146-147.
ConnectFailed(c, e) ==
    /\ conn[c].pc = "open"
    /\ MayFail(c)
    /\ IF CatchThrows(e)
       THEN /\ conn' = [conn EXCEPT ![c] = [pc |-> "raised", lcl |-> 0]]
            /\ last' = Step(IF ByTimer(c) THEN "failed" ELSE "connect_raised")
            /\ UNCHANGED <<state, retryCount, tm, reconnectTimer>>
       ELSE /\ state' = "disconnected"
            /\ scheduleReconnect
            /\ conn' = [conn EXCEPT ![c] = [pc |-> "done", lcl |-> 0]]
            /\ last' = Step("failed")
    /\ UNCHANGED <<closed, client, transport, lastToolNames, envVars, cls, sig,
                   histVars, proxyVars>>

\* The remote listing of `await this.listTools()` (line 138) rejected with e.
\* The catch of listTools (lines 156-161) logs it and returns [], and connect()
\* goes on as after an empty listing; when formatting e throws (line 158),
\* listTools() rejects with the TypeError, which the catch of connect() formats
\* (an Error) and handles.
ConnectListFailed(c, e) ==
    /\ conn[c].pc = "list"
    /\ conn[c].lcl # 0
    /\ MayFail(conn[c].lcl)
    /\ conn' = [conn EXCEPT ![c] = [pc |-> "done", lcl |-> 0]]
    /\ IF CatchThrows(e)
       THEN /\ state' = "disconnected"
            /\ scheduleReconnect
            /\ last' = Step("failed")
            /\ UNCHANGED <<lastToolNames, note>>
       ELSE /\ lastToolNames' = <<>>
            /\ last' = Emit("listing_failed", "connected", <<>>)
            /\ note' = "connected"
            /\ UNCHANGED <<state, retryCount, tm, reconnectTimer>>
    /\ UNCHANGED <<closed, client, transport, envVars, cls, sig,
                   opened, since, prevNames, shut, proxyVars>>

----------------------------------------------------------------------------
(* The transport's onclose handler (lines 120-124) and handleDisconnect. *)

\* handleDisconnect, lines 257-263.
handleDisconnect ==
    /\ state' = "disconnected"
    /\ lastToolNames' = <<>>
    /\ prevNames' = IF InFlight = {} THEN lastToolNames ELSE NoNames
    /\ last' = Emit("onclose", "disconnected", <<>>)
    /\ note' = "disconnected"
    /\ scheduleReconnect

\* The transport of connection object c reports that it closed.
TransportClosed(c) ==
    /\ c \in Created \ sig
    /\ MayFail(c)
    /\ sig' = sig \cup {c}
    /\ IF state = "connected"
       THEN handleDisconnect
       ELSE /\ last' = Step("onclose")
            /\ UNCHANGED <<state, lastToolNames, retryCount, tm, reconnectTimer,
                           prevNames, note>>
    /\ UNCHANGED <<closed, client, transport, envVars, conn, cls,
                   opened, since, shut, proxyVars>>

----------------------------------------------------------------------------
(* The timer callback of scheduleReconnect, lines 282-310. *)

\* `await this.connect()` inside the callback of timer t: connect() runs up to its
\* first await in the same run.  An early return leaves the callback to resume.
TimerConnect(t, st) ==
    IF ConnectGuard(st)
    THEN /\ ConnectStart
         /\ tm' = [tm EXCEPT ![t] = [NoTimer EXCEPT !.pc = "connect", !.att = NextClient]]
         /\ since' = [since EXCEPT !.auto = @ + 1]
    ELSE /\ state' = st
         /\ tm' = [tm EXCEPT ![t] = [NoTimer EXCEPT !.pc = "resume"]]
         /\ UNCHANGED <<conn, since>>

\* Timer t fires: lines 283-297, up to the first await reached.
TimerFired(t) ==
    /\ tm[t].pc = "pending"
    /\ reconnectTimer' = 0
    /\ IF client # 0
       THEN /\ state' = "idle"
            /\ tm' = [tm EXCEPT ![t] = [NoTimer EXCEPT !.pc = "closing"]]
            /\ shut' = shut \cup {client}
            /\ UNCHANGED <<client, transport, conn, since>>
       ELSE /\ TimerConnect(t, "idle")
            /\ IF ConnectGuard("idle") THEN TRUE ELSE UNCHANGED <<client, transport>>
            /\ UNCHANGED shut
    /\ last' = Step("timer")
    /\ UNCHANGED <<closed, retryCount, lastToolNames, envVars,
                   cls, sig, opened, prevNames, note, proxyVars>>

\* `await this.client.close()` of the stale client settled (either way: the catch
\* of line 290 ignores a failure): lines 293-297.
TimerCleaned(t) ==
    /\ tm[t].pc = "closing"
    /\ TimerConnect(t, state)
    /\ IF ConnectGuard(state) THEN TRUE ELSE client' = 0 /\ transport' = 0
    /\ last' = Step("timer_cleaned")
    /\ UNCHANGED <<closed, retryCount, reconnectTimer, lastToolNames,
                   envVars, cls, sig, opened, prevNames, shut, note, proxyVars>>

\* `await this.connect()` settled: lines 300-301.  A connect() that ended with an
\* exception ends the callback with it.
TimerResumed(t) ==
    /\ \/ tm[t].pc = "resume"
       \/ tm[t].pc = "connect" /\ conn[tm[t].att].pc \in {"done", "raised"}
    /\ IF state = "connected" /\ ~(tm[t].pc = "connect" /\ conn[tm[t].att].pc = "raised")
       THEN tm' = [tm EXCEPT ![t] =
                      [pc |-> "list", att |-> 0,
                       lcl |-> IF ListGuard(client, state) THEN client ELSE 0,
                       prev |-> prevNames]]
       ELSE tm' = [tm EXCEPT ![t] = NoTimer]
    /\ last' = Step("timer_resumed")
    /\ UNCHANGED <<mgrVars, envVars, conn, cls, sig, histVars, proxyVars>>

\* `await this.listTools()` of the callback resolved: lines 302-308.
TimerListed(t, tools) ==
    /\ tm[t].pc = "list"
    /\ tools \in ListResults(tm[t].lcl)
    /\ IF ToolsChanged(tools, lastToolNames)
       THEN /\ lastToolNames' = tools
            /\ last' = Compared("tools_changed", tools, tm[t].prev, lastToolNames)
       ELSE /\ UNCHANGED lastToolNames
            /\ last' = Compared("none", tools, tm[t].prev, lastToolNames)
    /\ tm' = [tm EXCEPT ![t] = NoTimer]
    /\ UNCHANGED <<state, closed, client, transport, retryCount, reconnectTimer,
                   envVars, conn, cls, sig, histVars, proxyVars>>

\* The remote listing of the callback rejected with e: listTools returns [],
\* which is compared as a listing is; when formatting e throws, the callback
\* ends with the exception.
TimerListFailed(t, e) ==
    /\ tm[t].pc = "list"
    /\ tm[t].lcl # 0
    /\ MayFail(tm[t].lcl)
    /\ tm' = [tm EXCEPT ![t] = NoTimer]
    /\ IF CatchThrows(e)
       THEN /\ last' = Step("timer_raised")
            /\ UNCHANGED lastToolNames
       ELSE IF ToolsChanged(<<>>, lastToolNames)
       THEN /\ lastToolNames' = <<>>
            /\ last' = Compared("tools_changed", <<>>, tm[t].prev, lastToolNames)
       ELSE /\ UNCHANGED lastToolNames
            /\ last' = Compared("none", <<>>, tm[t].prev, lastToolNames)
    /\ UNCHANGED <<state, closed, client, transport, retryCount, reconnectTimer,
                   envVars, conn, cls, sig, histVars, proxyVars>>

----------------------------------------------------------------------------
(* close(), lines 237-255. *)

\* clearTimeout(this.reconnectTimer), lines 239-242.
CancelTimer ==
    /\ reconnectTimer' = 0
    /\ tm' = IF reconnectTimer # 0 /\ tm[reconnectTimer].pc = "pending"
             THEN [tm EXCEPT ![reconnectTimer] = NoTimer]
             ELSE tm

\* What follows `await this.client.close()` (lines 244-250): a failure is caught
\* and logged, and the call goes on to line 251, unless formatting the failure
\* throws (line 248), which ends close() with that exception.
CloseSettled(ok, e) == IF ~ok /\ CatchThrows(e) THEN "raise" ELSE "resume"

LeastIdle == CHOOSE k \in Closes : cls[k] = "idle" /\ \A j \in Closes : cls[j] = "idle" => k <= j

\* A close() call, up to its await (or, without a client, to its return).
Close ==
    /\ \E k \in Closes : cls[k] = "idle"
    /\ closed' = TRUE
    /\ CancelTimer
    /\ IF client # 0
       THEN /\ cls' = [cls EXCEPT ![LeastIdle] = "closing"]
            /\ shut' = shut \cup {client}
            /\ last' = Step("close_await")
            /\ UNCHANGED <<state, transport>>
       ELSE /\ transport' = 0
            /\ state' = "idle"
            /\ last' = Step("close_ret")
            /\ UNCHANGED <<cls, shut>>
    /\ UNCHANGED <<client, retryCount, lastToolNames, envVars,
                   conn, sig, opened, since, prevNames, note, proxyVars>>

\* `await this.client.close()` settled, with ok or with the failure e: lines
\* 246-254.
CloseResumed(k, ok, e) ==
    /\ cls[k] = "closing"
    /\ IF CloseSettled(ok, e) = "resume"
       THEN /\ client' = 0
            /\ transport' = 0
            /\ state' = "idle"
            /\ cls' = [cls EXCEPT ![k] = "idle"]
            /\ last' = Emit("close_ret", IF ok THEN "none" ELSE "close_error_logged", <<>>)
       ELSE /\ cls' = [cls EXCEPT ![k] = "idle"]
            /\ last' = Step("close_raised")
            /\ UNCHANGED <<client, transport, state>>
    /\ UNCHANGED <<closed, retryCount, reconnectTimer, lastToolNames,
                   envVars, conn, tm, sig, histVars, proxyVars>>

----------------------------------------------------------------------------
(* registerTools() and the proxy it installs, lines 164-219. *)

\* The proxy's check without `!this.client`.
ProxyGuard_StateOnly(cl, st) == st = "connected"

\* The proxy's check of line 180, negated: the call is forwarded only with a
\* connection object and in state connected.
ProxyGuard(cl, st) == cl # 0 /\ st = "connected"

\* The handle the proxy forwards on (line 192): this.client, read in the same run
\* as the check.
ProxyHandle == client

\* A registerTools(server) call, up to `await this.listTools()`.
RegisterTools ==
    /\ reg.pc = "idle"
    /\ reg' = [pc |-> "list", lcl |-> IF ListGuard(client, state) THEN client ELSE 0]
    /\ last' = Step("register")
    /\ UNCHANGED <<mgrVars, envVars, conn, tm, cls, sig, histVars,
                   registeredToolNames, host, others, px, unreg>>

\* The listing resolved: lines 167-218, a proxy installed under each listed name
\* and the name recorded.
RegisterListed(tools) ==
    /\ reg.pc = "list"
    /\ tools \in ListResults(reg.lcl)
    /\ host' = host \cup Range(tools)
    /\ registeredToolNames' = registeredToolNames \cup Range(tools)
    /\ reg' = NoReg
    /\ last' = Step("registered")
    /\ UNCHANGED <<mgrVars, envVars, conn, tm, cls, sig, histVars, others, px, unreg>>

\* The remote listing rejected with e: listTools returns [] and nothing is
\* installed; when formatting e throws, listTools(), and with it
\* registerTools(), rejects.
RegisterListFailed(e) ==
    /\ reg.pc = "list"
    /\ reg.lcl # 0
    /\ MayFail(reg.lcl)
    /\ reg' = NoReg
    /\ last' = Step(IF CatchThrows(e) THEN "list_raised" ELSE "registered")
    /\ UNCHANGED <<mgrVars, envVars, conn, tm, cls, sig, histVars,
                   registeredToolNames, host, others, px, unreg>>

\* The host invokes the proxy installed under name n: lines 178-192, up to
\* `await this.client.callTool` or to the return of the not-connected result.
ProxyInvoke(n) ==
    /\ n \in host
    /\ px.pc # "calling"
    /\ px' = IF ProxyGuard(client, state)
             THEN [pc |-> "calling", tool |-> n, h |-> ProxyHandle, res |-> "none",
                   msg |-> ""]
             ELSE [pc |-> "returned", tool |-> n, h |-> 0, res |-> "not_connected",
                   msg |-> "Not connected"]
    /\ last' = Step("proxy")
    /\ UNCHANGED <<mgrVars, envVars, conn, tm, cls, sig, histVars,
                   registeredToolNames, host, others, reg, unreg>>

\* How a forwarded call on connection object h may settle: a call on an object
\* whose open has not succeeded can only fail.
CallResults(h) == IF h \in opened THEN BOOLEAN ELSE {FALSE}

\* `await this.client.callTool` settled: the remote result returned verbatim
\* (line 196), or the failure e caught and turned into an error result for the
\* tool whose text ends with formatError(e) (197-213), unless formatError throws
\* (line 198), which ends the proxy with that exception.
ProxySettled(ok, e) ==
    /\ px.pc = "calling"
    /\ ok \in CallResults(px.h)
    /\ px' = IF ok THEN [px EXCEPT !.pc = "returned", !.res = "remote"]
             ELSE IF CatchThrows(e) THEN [px EXCEPT !.pc = "returned", !.res = "raised"]
             ELSE [px EXCEPT !.pc = "returned", !.res = "failed", !.msg = formatError(e)]
    /\ last' = Step(IF ~ok /\ CatchThrows(e) THEN "proxy_raised" ELSE "proxy_settled")
    /\ UNCHANGED <<mgrVars, envVars, conn, tm, cls, sig, histVars,
                   registeredToolNames, host, others, reg, unreg>>

----------------------------------------------------------------------------
(* unregisterTools(), lines 221-235. *)

\* The servers unregisterTools may be given: the server registerTools installed
\* the proxies on ("server"), an object without _registeredTools ("bare", line
\* 225), and another server whose _registeredTools holds entries under the names
\* E ("other").  Every entry is a RegisteredTool and carries remove().
Servers ==
    {[kind |-> "server", entries |-> {}], [kind |-> "bare", entries |-> {}]}
        \cup {[kind |-> "other", entries |-> E] : E \in SUBSET ToolNames}

\* The entries of the server's _registeredTools.
EntriesOf(srv) == IF srv.kind = "server" THEN host \cup others ELSE srv.entries

\* The loop of lines 227-233 over the registration set: remove() is called on the
\* entry found under each name, if there is one.
RECURSIVE RemoveLoop(_, _, _)
RemoveLoop(names, entries, calls) ==
    IF names = {} THEN calls
    ELSE LET name == CHOOSE n \in names : TRUE
         IN  RemoveLoop(names \ {name}, entries,
                        IF name \in entries
                        THEN [calls EXCEPT ![name] = @ + 1]
                        ELSE calls)

\* The loop of lines 227-233 run over the server's entries instead of the
\* registration set.
RemovalCalls_AllEntries(names, entries) == RemoveLoop(entries, entries, NoRemoval)

\* The remove() calls of one unregisterTools() run, by name.
RemovalCalls(names, entries) == RemoveLoop(names, entries, NoRemoval)

\* remove() of a RegisteredTool deletes the entry from its server.
Removed(calls) == {n \in ToolNames : calls[n] > 0}

\* An unregisterTools(srv) call.
UnregisterTools(srv) ==
    /\ IF srv.kind = "bare"
       THEN /\ unreg' = [srv |-> srv.kind, names |-> registeredToolNames,
                         entries |-> {}, calls |-> NoRemoval]
            /\ UNCHANGED <<registeredToolNames, host, others>>
       ELSE LET calls == RemovalCalls(registeredToolNames, EntriesOf(srv))
            IN  /\ unreg' = [srv |-> srv.kind, names |-> registeredToolNames,
                             entries |-> EntriesOf(srv), calls |-> calls]
                /\ host' = IF srv.kind = "server" THEN host \ Removed(calls) ELSE host
                /\ others' = IF srv.kind = "server" THEN others \ Removed(calls) ELSE others
                /\ registeredToolNames' = {}
    /\ last' = Step("unregister")
    /\ UNCHANGED <<mgrVars, envVars, conn, tm, cls, sig, histVars, reg, px>>

----------------------------------------------------------------------------

\* The remote becomes reachable for good.
RemoteRecovers ==
    /\ ~reachable
    /\ reachable' = TRUE
    /\ UNCHANGED <<mgrVars, reconnectOpts, remoteNames, maxConns, failures,
                   conn, tm, cls, sig, last, histVars, proxyVars>>

\* How the awaits of the connect() invocation that created c may settle.
Settle(c) ==
    \/ ConnectOpened(c)
    \/ \E e \in failures : ConnectFailed(c, e)
    \/ \E tools \in Listings : ConnectListed(c, tools)
    \/ \E e \in failures : ConnectListFailed(c, e)

\* connect() and the transport's signal.
Connecting ==
    \/ Connect
    \/ \E c \in Clients : Settle(c)
    \/ \E c \in Clients : TransportClosed(c)

\* close()
Closing ==
    \/ Close
    \/ \E k \in Closes, ok \in BOOLEAN, e \in failures : CloseResumed(k, ok, e)

Calls == Connecting \/ Closing

\* The steps of the callback of timer t.
Callback(t) ==
    \/ TimerFired(t)
    \/ TimerCleaned(t)
    \/ TimerResumed(t)
    \/ \E tools \in Listings : TimerListed(t, tools)
    \/ \E e \in failures : TimerListFailed(t, e)

\* The callbacks of the reconnect timers.
Timing == \E t \in Timers : Callback(t)

Lifecycle == Calls \/ Timing

Proxying ==
    \/ RegisterTools
    \/ \E tools \in Listings : RegisterListed(tools)
    \/ \E e \in failures : RegisterListFailed(e)
    \/ \E n \in ToolNames : ProxyInvoke(n)
    \/ \E ok \in BOOLEAN, e \in failures : ProxySettled(ok, e)

Next == Lifecycle

Unregistering == \E srv \in Servers : UnregisterTools(srv)

\* Without reconnection no timer is armed and no timer callback runs.
NextCalls == Calls \/ Proxying

NextHost == Calls \/ Proxying \/ Unregistering

\* close() is never called.
NextDeep == Connecting \/ Timing

NextLive == Connecting \/ Timing \/ RemoteRecovers

\* An armed timer fires and its callback runs on, and every await of a
\* connect() invocation settles.
Fairness ==
    /\ \A t \in Timers : WF_vars(Callback(t))
    /\ \A c \in Clients : WF_vars(Settle(c))

NextProxy == Lifecycle \/ Proxying

\* The lifecycle under every reconnect policy.
Spec == Init /\ [][Next]_vars

\* Reconnection through three connection objects, without close().
SpecDeep == InitDeep /\ [][NextDeep]_vars

\* The lifecycle with a remote whose listings vary in content and order.
SpecTools == InitTools /\ [][Next]_vars

\* The lifecycle together with proxy registration and invocation.
SpecProxy == InitProxy /\ [][NextProxy]_vars

\* Registration and unregistration of proxies on a server, without reconnection.
SpecHost == InitHost /\ [][NextHost]_vars

\* Reconnection without close(), with fair timers and awaits that settle.
SpecLive == InitLive /\ [][NextLive]_vars /\ Fairness

\* The caller's operations and the proxies, without reconnection, with a remote
\* that rejects with any value.
SpecErrors == InitErrors /\ [][NextCalls]_vars

----------------------------------------------------------------------------
(* Properties. *)

\* No connect() invocation is suspended and no close() call is suspended.
Settled == InFlight = {} /\ \A k \in Closes : cls[k] = "idle"

\* A reconnect timer callback has fired and not yet finished.
ActiveCallbacks == {t \in Timers : tm[t].pc \notin {"unused", "pending"}}

\* C1: once close() has been invoked, no connected notification is emitted, and
\* when the connect() attempts that were in flight have resolved and close() has
\* returned, the state is idle.
C1_ShutdownHonored ==
    closed =>
        /\ last.ev # "connected"
        /\ Settled => state = "idle"

\* C2: after close() has been invoked no step creates a connection object or
\* starts an attempt, and a connect() call returns at once, changing nothing.
C2_ConnectAfterCloseIsNoop ==
    [][closed =>
          /\ Created' = Created
          /\ InFlight' \subseteq InFlight
          /\ last'.op \in {"connect", "connect_noop"} =>
                /\ last'.op = "connect_noop"
                /\ UNCHANGED <<mgrVars, conn, tm, cls, sig, histVars>>]_vars

\* C2's case: close() has returned, connect() was then called, the state is idle.
C2_Witness ==
    /\ closed
    /\ Settled
    /\ last.op = "connect_noop"
    /\ state = "idle"

\* C3: once close() has been invoked, no reconnect timer is pending.
C3_CloseCancelsReconnect == closed => PendingTimers = {}

\* C4: close() raises nothing, and the state is idle whenever a close() call
\* returns, also when closing the connection object failed.
C4_CloseTotal ==
    /\ last.op # "close_raised"
    /\ last.op = "close_ret" => state = "idle"

\* C5: a connect() call issued while an earlier connect() call has not resolved
\* returns without changing anything.
C5_ConcurrentConnectIsNoop ==
    [][(last'.op \in {"connect", "connect_noop"} /\ InFlight # {}) =>
          /\ last'.op = "connect_noop"
          /\ UNCHANGED <<mgrVars, conn>>]_vars

\* C6: with reconnect enabled and maxRetries = N, as long as the caller issues no
\* connect() (after the one that starts the manager) and no close(), at most N
\* reconnect attempts follow construction or a successful connection without a
\* success among them, and once the Nth has failed no timer is armed and the state
\* is disconnected.
C6_RetryBudget ==
    (/\ reconnectOpts.enabled
     /\ ~closed
     /\ since.manual <= (IF opened = {} THEN 1 ELSE 0)) =>
        /\ since.auto <= reconnectOpts.maxRetries
        /\ (/\ since.auto = reconnectOpts.maxRetries
            /\ InFlight = {}
            /\ ActiveCallbacks = {}) =>
               /\ PendingTimers = {}
               /\ state = "disconnected"

\* C7: with reconnect disabled no timer is ever armed, only a caller's connect()
\* starts an attempt, and the state leaves disconnected only by a caller's
\* connect() (when it is called, or when an await of it settles) or close().
C7_NoReconnectWhenDisabled ==
    /\ [](~reconnectOpts.enabled =>
            /\ reconnectTimer = 0
            /\ \A t \in Timers : tm[t].pc = "unused")
    /\ [][~reconnectOpts.enabled =>
            /\ Created' # Created => last'.op = "connect"
            /\ (state = "disconnected" /\ state' # "disconnected") =>
                   \/ last'.op \in {"connect", "close_ret"}
                   \/ \E c \in Clients : conn[c].pc = "open" /\ conn'[c].pc = "list"]_vars

\* C7's case: reconnect is disabled and the only connect() has failed.
C7_Witness ==
    /\ ~reconnectOpts.enabled
    /\ state = "disconnected"
    /\ conn[1].pc = "done"
    /\ opened = {}
    /\ Cardinality(Created) = 1

\* C8: when a reconnect reaches connected and the timer callback has compared the
\* listing (the remote listing the same names as in this connection's snapshot),
\* tools_changed was emitted exactly when the set of names now listed differs
\* from the set observed during the previous connection.
C8_ToolsChangedIffDiffers ==
    (/\ last.op = "timer_listed"
     /\ last.prev # NoNames
     /\ Range(last.snap) = Range(last.tools)) =>
        (last.ev = "tools_changed" <=> Range(last.tools) # Range(last.prev))

\* C9: getTools() is empty until a connection has succeeded, and empty in the
\* state that results from each connected-to-disconnected transition.
C9_GetToolsEmpty ==
    /\ [](opened = {} => getTools = <<>>)
    /\ [][(state = "connected" /\ state' = "disconnected") => getTools' = <<>>]_vars

\* C10: an invoked proxy forwards exactly when the state is connected and a
\* connection object is held, and then on that object; otherwise it makes no
\* remote call and returns the not-connected error result for its tool.
C10_ProxyForwardsOnlyConnected ==
    [][last'.op = "proxy" =>
          /\ px'.tool \in host
          /\ IF state = "connected" /\ client # 0
             THEN /\ px'.pc = "calling"
                  /\ px'.h = client
                  /\ client' = client
             ELSE /\ px'.pc = "returned"
                  /\ px'.res = "not_connected"
                  /\ px'.h = 0]_vars

\* C10's case: the first connection was opened and lost, and a proxy invoked after
\* the reconnect forwards on the second connection object.
C10_Witness ==
    /\ last.op = "proxy"
    /\ px.pc = "calling"
    /\ px.h = 2
    /\ client = 2
    /\ opened = {1, 2}
    /\ 1 \in sig
    /\ state = "connected"

\* C11: no failure of an open, a listing, an invocation or a close is raised to
\* the caller: connect(), close(), the listing of registerTools() and an invoked
\* proxy end without an exception, and a proxy whose forwarding failed returns
\* the error result for its tool with the formatted failure.
C11_NoFailureRaised ==
    /\ last.op \notin {"connect_raised", "close_raised", "list_raised", "proxy_raised"}
    /\ px.res # "raised"
    /\ px.res = "failed" =>
          /\ px.tool \in ToolNames
          /\ \E e \in failures : px.msg = formatError(e)

\* C12: when an unregisterTools() call returns, the registration set is empty,
\* whatever server it was given; given a server without installed tools it calls
\* no remove().
C12_UnregisterClears ==
    last.op = "unregister" =>
        /\ registeredToolNames = {}
        /\ unreg.srv = "bare" => unreg.calls = NoRemoval

\* C13: unregisterTools() calls remove() once on each entry of the server whose
\* name is in the registration set and on no other entry, and the server's other
\* entries stay installed.
C13_UnregisterRemovesOwnNames ==
    (last.op = "unregister" /\ unreg.srv # "bare") =>
        /\ \A n \in ToolNames :
              unreg.calls[n] = IF n \in unreg.names \cap unreg.entries THEN 1 ELSE 0
        /\ unreg.srv = "server" =>
              host \cup others = unreg.entries \ unreg.names

\* C13's case: the registration set holds one name, the server holds that entry
\* and one under another name, and only the former was removed.
C13_Witness ==
    /\ last.op = "unregister"
    /\ unreg.srv = "server"
    /\ unreg.names = {1}
    /\ unreg.entries = {1, 2}
    /\ unreg.calls[1] = 1
    /\ unreg.calls[2] = 0
    /\ host \cup others = {2}

\* Connection objects that are live: their open succeeded, their transport has
\* not reported a closure, and the manager has not called close() on them.
Live == opened \ (sig \cup shut)

\* C14: in state connected the manager holds a connection object and that object
\* is live; in states idle and disconnected it holds none.
C14_StateMatchesConnection ==
    /\ state = "connected" => client \in Live
    /\ state \in {"idle", "disconnected"} => client = 0

\* C15: at most one connection object is live; an attempt that creates a
\* connection object starts when the manager holds none or has closed the one it
\* held; and the manager never closes or discards the object of an attempt that
\* is still in flight, unless close() was requested.
C15_OneLiveConnection ==
    /\ [](Cardinality(Live) <= 1)
    /\ [][/\ Created' # Created => (client = 0 \/ client \in shut)
          /\ (~closed' /\ client # client' /\ client # 0) => client \notin InFlight
          /\ (~closed' /\ shut' # shut) => client \notin InFlight]_vars

\* C16: at most one reconnect timer is pending, and no step arms a timer while
\* one armed earlier is still pending.
C16_OneTimerPending ==
    /\ [](Cardinality(PendingTimers) <= 1)
    /\ [][PendingTimers # {} => PendingTimers' \subseteq PendingTimers]_vars

\* C17: when a connection attempt fails, at its open or at its initial listing,
\* the state that results is disconnected, no connected notification is emitted,
\* and a reconnect timer is armed exactly when reconnect is enabled, close() has
\* not been called and retries remain.
C17_FailedAttempt ==
    [][\A c \in Clients :
          (/\ conn'[c].pc = "done"
           /\ \/ conn[c].pc = "open"
              \/ conn[c].pc = "list" /\ last'.op = "listing_failed") =>
             /\ state' = "disconnected"
             /\ last'.ev # "connected"
             /\ (PendingTimers' # PendingTimers) <=>
                   (/\ reconnectOpts.enabled
                    /\ ~closed
                    /\ retryCount < reconnectOpts.maxRetries)]_vars

\* C18: a disconnected notification is emitted only when a transport whose
\* connection the manager has not closed itself signals its closure while the
\* state is connected, and a closure signalled in another state changes nothing
\* in the manager.
C18_DisconnectOnlyOutOfBand ==
    [][/\ last'.ev = "disconnected" =>
             /\ state = "connected"
             /\ sig' # sig
             /\ (sig' \ sig) \cap shut = {}
       /\ (sig' # sig /\ state # "connected") => UNCHANGED mgrVars]_vars

\* C20: when a connected notification is emitted the state is connected and the
\* snapshot holds the names just listed; the notification before a connected one
\* was not a connected one, and the one before a disconnected one was.
C20_ConnectedNotification ==
    /\ [](last.ev = "connected" =>
            /\ state = "connected"
            /\ lastToolNames = last.tools)
    /\ [][/\ last'.ev = "connected" => note # "connected"
          /\ last'.ev = "disconnected" => note = "connected"]_vars

\* An attempt of connect() has failed: its open was rejected.
Failed(c) == conn[c].pc = "raised" \/ (conn[c].pc = "done" /\ c \notin opened)

\* C19: with reconnect enabled, unbounded retries and no close(), after a failed
\* attempt and after a disconnect a new connection attempt starts eventually, and
\* once the remote stays reachable a disconnected manager eventually reaches
\* connected, as far as the connection objects of the run allow.
C19_ReconnectLiveness ==
    /\ \A c \in 1..(LiveMaxClients - 1) :
          (Failed(c) \/ (state = "disconnected" /\ Cardinality(Created) = c))
              ~> (Cardinality(Created) > c)
    /\ (reachable /\ state = "disconnected")
          ~> (state = "connected" \/ Cardinality(Created) = LiveMaxClients)

====
